---- MODULE Spec2Model ----
(***************************************************************************)
(* Model of 3d_website/backend_stub.py: the FastAPI application `app`, the *)
(* pydantic request schema `GenerateRequest` and the handler `generate`    *)
(* registered for POST /generate.                                          *)
(*                                                                         *)
(* JSON values are tagged records [t, s, n]: t is the JSON/Python type,    *)
(* s the text of a string, n the number.  Floating point numbers are kept  *)
(* exactly as a count of quarters (0.25 = 1, 0.5 = 2, 1.0 = 4, 2.5 = 10), *)
(* integers as themselves, so that int -> float is a real conversion.      *)
(***************************************************************************)
EXTENDS Integers, FiniteSets, Sequences, TLC

VARIABLES routes, defaults, pc, body, req, resp, calls

vars == <<routes, defaults, pc, body, req, resp, calls>>

----------------------------------------------------------------------------
(* Bounds *)

\* number of requests the serving runtime may have in flight at once
MaxInflight == 2

Slots == 1..MaxInflight

----------------------------------------------------------------------------
(* JSON / Python values *)

JStr(s) == [t |-> "str", s |-> s, n |-> 0]
JInt(i) == [t |-> "int", s |-> "", n |-> i]
JFloat(q) == [t |-> "float", s |-> "", n |-> q]
JBool(b) == [t |-> "bool", s |-> "", n |-> IF b THEN 1 ELSE 0]
JNull == [t |-> "null", s |-> "", n |-> 0]

\* whole + q/4 as a count of quarters
Quarters(whole, q) == 4 * whole + q

\* float(i) for a Python int i
IntToFloat(i) == Quarters(i, 0)

\* the strings of the model that Python's float() parses, with their value
FloatLiterals ==
    ("1.5" :> Quarters(1, 2)) @@ ("0.5" :> Quarters(0, 2)) @@ ("0" :> Quarters(0, 0))

----------------------------------------------------------------------------
(* class GenerateRequest(BaseModel) *)

StrFields == {"wordA", "wordB", "font"}
FloatFields == {"padding", "fillet"}
FieldNames == StrFields \cup FloatFields

\* the fields declared with "= value"
SchemaDefaultsWeakWordB ==
    [wordB |-> JStr(""), font |-> JStr("Sans"),
     padding |-> JFloat(Quarters(2, 2)), fillet |-> JFloat(Quarters(0, 2))]

SchemaDefaultsOtherPadding ==
    [font |-> JStr("Sans"), padding |-> JFloat(Quarters(2, 0)), fillet |-> JFloat(Quarters(0, 2))]

SchemaDefaults ==
    [font |-> JStr("Sans"), padding |-> JFloat(Quarters(2, 2)), fillet |-> JFloat(Quarters(0, 2))]

\* BaseModel's model_config default for unknown keys: "ignore"
ExtraPolicyAllow == "allow"

ExtraPolicy == "ignore"

\* validation of one value against the annotation `str` (lax mode):
\* only a str is a str
validate_strNonEmpty(v) ==
    IF v.t = "str" /\ v.s # ""
    THEN [ok |-> TRUE, val |-> JStr(v.s), err |-> ""]
    ELSE [ok |-> FALSE, val |-> JNull, err |-> "string_type"]

validate_str(v) ==
    IF v.t = "str"
    THEN [ok |-> TRUE, val |-> JStr(v.s), err |-> ""]
    ELSE [ok |-> FALSE, val |-> JNull, err |-> "string_type"]

\* validation of one value against the annotation `float` (lax mode):
\* a float is kept, an int or a bool is converted, a str is parsed
validate_floatStrict(v) ==
    IF v.t = "float" THEN [ok |-> TRUE, val |-> JFloat(v.n), err |-> ""]
    ELSE IF v.t = "int" THEN [ok |-> TRUE, val |-> JFloat(IntToFloat(v.n)), err |-> ""]
    ELSE [ok |-> FALSE, val |-> JNull, err |-> "float_type"]

validate_float(v) ==
    CASE v.t = "float" -> [ok |-> TRUE, val |-> JFloat(v.n), err |-> ""]
      [] v.t = "int" -> [ok |-> TRUE, val |-> JFloat(IntToFloat(v.n)), err |-> ""]
      [] v.t = "bool" -> [ok |-> TRUE, val |-> JFloat(IntToFloat(v.n)), err |-> ""]
      [] v.t = "str" ->
            IF v.s \in DOMAIN FloatLiterals
            THEN [ok |-> TRUE, val |-> JFloat(FloatLiterals[v.s]), err |-> ""]
            ELSE [ok |-> FALSE, val |-> JNull, err |-> "float_parsing"]
      [] OTHER -> [ok |-> FALSE, val |-> JNull, err |-> "float_type"]

\* one field of the schema against the request body b, with defaults d
validate_field(f, b, d) ==
    IF f \in DOMAIN b
    THEN IF f \in StrFields THEN validate_str(b[f]) ELSE validate_float(b[f])
    ELSE IF f \in DOMAIN d
         THEN [ok |-> TRUE, val |-> d[f], err |-> ""]
         ELSE [ok |-> FALSE, val |-> JNull, err |-> "missing"]

\* keys of the body the schema does not declare
ExtraKeys(b) == DOMAIN b \ FieldNames

\* GenerateRequest.model_validate(b): the error list and, when it is empty,
\* the instance (its declared attributes and the extras it keeps)
model_validate(b, d) ==
    LET errs == {[loc |-> f, type |-> validate_field(f, b, d).err] :
                    f \in {g \in FieldNames : ~validate_field(g, b, d).ok}}
                \cup (IF ExtraPolicy = "forbid"
                      THEN {[loc |-> k, type |-> "extra_forbidden"] : k \in ExtraKeys(b)}
                      ELSE {})
        kept == IF ExtraPolicy = "allow" THEN ExtraKeys(b) ELSE {}
    IN  [errors |-> errs,
         fields |-> [f \in FieldNames |-> validate_field(f, b, d).val],
         extra |-> [k \in kept |-> b[k]]]

\* req.model_dump(): the attributes of the instance as a dict
model_dumpDropFillet(r) ==
    [k \in (FieldNames \ {"fillet"}) \cup DOMAIN r.extra |->
        IF k \in FieldNames THEN r.fields[k] ELSE r.extra[k]]

model_dump(r) ==
    [k \in FieldNames \cup DOMAIN r.extra |->
        IF k \in FieldNames THEN r.fields[k] ELSE r.extra[k]]

----------------------------------------------------------------------------
(* def generate(req: GenerateRequest) *)

generateOtherMessage(r) ==
    [message |-> "Not implemented", received |-> model_dump(r)]

\* the handler's result depends on what else the process is serving
generateCounting(r) ==
    [message |-> IF \E j \in Slots : pc[j] = "done"
                 THEN "Not implemented yet (again)" ELSE "Not implemented yet",
     received |-> model_dump(r)]

generate(r) ==
    [message |-> "Not implemented yet", received |-> model_dump(r)]

----------------------------------------------------------------------------
(* Request bodies *)

Absent == [t |-> "absent", s |-> "", n |-> 0]

WordAChoices == {Absent, JStr("A"), JStr("Hello"), JStr(""), JInt(7)}
WordBChoices == {Absent, JStr("B"), JStr("World"), JStr(""), JNull}
FontChoices == {Absent, JStr("Serif"), JStr(""), JBool(TRUE)}
PaddingChoices ==
    {Absent, JFloat(Quarters(1, 0)), JFloat(Quarters(-1, -2)), JInt(0), JInt(3),
     JStr("1.5"), JStr("abc"), JBool(TRUE), JNull}
FilletChoices == {Absent, JFloat(Quarters(0, 1)), JInt(-1), JStr("0.5"), JStr("")}
ColorChoices == {Absent, JStr("red")}

AllNames == FieldNames \cup {"color"}

\* the JSON object with the given members, Absent ones left out
Body(a, b, f, p, r, c) ==
    LET all == [wordA |-> a, wordB |-> b, font |-> f, padding |-> p, fillet |-> r, color |-> c]
    IN  [k \in {x \in AllNames : all[x] # Absent} |-> all[k]]

Bodies ==
    {Body(a, b, f, p, r, c) :
        a \in WordAChoices, b \in WordBChoices, f \in FontChoices,
        p \in PaddingChoices, r \in FilletChoices, c \in ColorChoices}

\* the bodies of the concurrent specification
ConcBodies ==
    {Body(JStr("A"), JStr("B"), Absent, Absent, Absent, Absent),
     Body(JStr("Hello"), JStr("World"), JStr("Serif"), JFloat(Quarters(1, 0)),
          JFloat(Quarters(0, 1)), Absent),
     Body(JStr("Hello"), JStr("B"), Absent, JInt(3), Absent, JStr("red")),
     Body(JStr("A"), Absent, JStr("Serif"), Absent, Absent, Absent),
     Body(JStr(""), JStr(""), JStr(""), JStr("1.5"), JInt(-1), Absent),
     Body(JStr("A"), JStr("B"), Absent, JStr("abc"), Absent, Absent),
     Body(JStr("A"), JStr("B"), Absent, Absent, Absent, JStr("red")),
     Body(JStr("A"), Absent, JStr("Serif"), Absent, Absent, JStr("red"))}

EmptyBody == [k \in {} |-> JNull]

----------------------------------------------------------------------------
(* app = FastAPI(...); @app.post("/generate") *)

RouteKey == <<"POST", "/generate">>

InitialRoutes == (RouteKey :> "generate")

Init ==
    /\ routes = InitialRoutes
    /\ defaults = SchemaDefaults
    /\ pc = [i \in Slots |-> "idle"]
    /\ body = [i \in Slots |-> EmptyBody]
    /\ req = [i \in Slots |-> {}]
    /\ resp = [i \in Slots |-> {}]
    /\ calls = [i \in Slots |-> 0]

\* a POST /generate with JSON object b arrives and is given slot i
Receive(i, b) ==
    /\ pc[i] = "idle"
    /\ pc' = [pc EXCEPT ![i] = "received"]
    /\ body' = [body EXCEPT ![i] = b]
    /\ req' = [req EXCEPT ![i] = {}]
    /\ resp' = [resp EXCEPT ![i] = {}]
    /\ calls' = [calls EXCEPT ![i] = 0]
    /\ UNCHANGED <<routes, defaults>>

\* the framework builds the handler's argument `req: GenerateRequest` from
\* the body; a validation error is answered without calling the handler
Deserialize(i) ==
    /\ pc[i] = "received"
    /\ LET v == model_validate(body[i], defaults)
       IN  IF v.errors = {}
           THEN /\ pc' = [pc EXCEPT ![i] = "validated"]
                /\ req' = [req EXCEPT ![i] = {[fields |-> v.fields, extra |-> v.extra]}]
                /\ resp' = resp
           ELSE /\ pc' = [pc EXCEPT ![i] = "rejected"]
                /\ req' = req
                /\ resp' = [resp EXCEPT ![i] =
                              {[status |-> 422, kind |-> "SchemaValidationError",
                                content |-> [detail |-> v.errors]]}]
    /\ UNCHANGED <<routes, defaults, body, calls>>

\* the argument the handler is called with for the request of slot i
HandlerInputShared(i) ==
    IF \E j \in Slots : j # i /\ req[j] # {}
    THEN CHOOSE r \in UNION {req[j] : j \in Slots \ {i}} : TRUE
    ELSE CHOOSE r \in req[i] : TRUE

HandlerInput(i) == CHOOSE r \in req[i] : TRUE

\* the route's handler runs and its return value becomes the 200 response
GenerateRegistering(i) ==
    /\ pc[i] = "validated"
    /\ RouteKey \in DOMAIN routes /\ routes[RouteKey] = "generate"
    /\ resp' = [resp EXCEPT ![i] =
                  {[status |-> 200, kind |-> "OK", content |-> generate(HandlerInput(i))]}]
    /\ calls' = [calls EXCEPT ![i] = @ + 1]
    /\ pc' = [pc EXCEPT ![i] = "done"]
    /\ defaults' = [defaults EXCEPT !.font = HandlerInput(i).fields.font]
    /\ UNCHANGED <<routes, body, req>>

Generate(i) ==
    /\ pc[i] = "validated"
    /\ RouteKey \in DOMAIN routes /\ routes[RouteKey] = "generate"
    /\ resp' = [resp EXCEPT ![i] =
                  {[status |-> 200, kind |-> "OK", content |-> generate(HandlerInput(i))]}]
    /\ calls' = [calls EXCEPT ![i] = @ + 1]
    /\ pc' = [pc EXCEPT ![i] = "done"]
    /\ UNCHANGED <<routes, defaults, body, req>>

\* the response is sent; the request object and the response are discarded
Send(i) ==
    /\ pc[i] \in {"done", "rejected"}
    /\ pc' = [pc EXCEPT ![i] = "idle"]
    /\ body' = [body EXCEPT ![i] = EmptyBody]
    /\ req' = [req EXCEPT ![i] = {}]
    /\ resp' = [resp EXCEPT ![i] = {}]
    /\ calls' = [calls EXCEPT ![i] = 0]
    /\ UNCHANGED <<routes, defaults>>

\* one request at a time, over every body of the model
Next ==
    \/ \E b \in Bodies : Receive(1, b)
    \/ Deserialize(1)
    \/ Generate(1)
    \/ Send(1)

Spec == Init /\ [][Next]_vars

\* requests served concurrently, their steps interleaved by the runtime
NextConc ==
    \/ \E i \in Slots, b \in ConcBodies : Receive(i, b)
    \/ \E i \in Slots : Deserialize(i)
    \/ \E i \in Slots : Generate(i)
    \/ \E i \in Slots : Send(i)

SpecConc == Init /\ [][NextConc]_vars

----------------------------------------------------------------------------
(* Vocabulary of the properties *)

Answered(i) == pc[i] \in {"done", "rejected"}
Response(i) == CHOOSE r \in resp[i] : TRUE
Received(i) == Response(i).content.received

RequiredPresent(b) == {"wordA", "wordB"} \subseteq DOMAIN b

\* every supplied schema field has the JSON type the schema declares
WellTyped(b) ==
    \A f \in DOMAIN b \cap FieldNames :
        IF f \in StrFields THEN b[f].t = "str" ELSE b[f].t \in {"int", "float"}

ValidRequest(b) == RequiredPresent(b) /\ WellTyped(b)

\* the number a JSON number denotes, in quarters
NumValue(w) == IF w.t = "int" THEN 4 * w.n ELSE w.n

\* the echoed value v is the supplied value w: the same text, or the same number
SameValue(v, w) ==
    \/ v.t = "str" /\ w.t = "str" /\ v.s = w.s
    \/ v.t = "float" /\ w.t \in {"int", "float"} /\ v.n = NumValue(w)

Sans == [t |-> "str", s |-> "Sans", n |-> 0]
TwoAndAHalf == [t |-> "float", s |-> "", n |-> 10]
Half == [t |-> "float", s |-> "", n |-> 2]

DefaultOf(f) ==
    CASE f = "font" -> Sans [] f = "padding" -> TwoAndAHalf [] f = "fillet" -> Half

HelloWorld ==
    [wordA |-> JStr("Hello"), wordB |-> JStr("World"), font |-> JStr("Serif"),
     padding |-> JFloat(4), fillet |-> JFloat(1)]

JustAB == [wordA |-> JStr("A"), wordB |-> JStr("B")]

----------------------------------------------------------------------------
(* Properties *)

\* C1: every request that passed deserialization and was answered has a
\* response whose message is the literal "Not implemented yet", whatever
\* its font, padding and fillet are.
C1_MessageIsLiteral ==
    \A i \in Slots :
        (req[i] # {} /\ resp[i] # {}) =>
            /\ "message" \in DOMAIN Response(i).content
            /\ Response(i).content.message = "Not implemented yet"

C1_Witness ==
    /\ pc[1] = "done"
    /\ body[1].wordA = JStr("Hello")
    /\ "font" \in DOMAIN body[1] /\ body[1].font = JStr("")
    /\ "padding" \in DOMAIN body[1] /\ body[1].padding = JFloat(-6)
    /\ "fillet" \notin DOMAIN body[1]

\* C2: for a valid request, received is the populated GenerateRequest: the
\* five fields, each with the supplied value when supplied and the schema
\* default when omitted; the Hello/World example is echoed unchanged.
C2_ReceivedEchoesRequest ==
    \A i \in Slots :
        (Answered(i) /\ ValidRequest(body[i])) =>
            /\ pc[i] = "done"
            /\ DOMAIN Received(i) = FieldNames
            /\ \A r \in req[i] : \A f \in FieldNames : Received(i)[f] = r.fields[f]
            /\ \A f \in FieldNames :
                  IF f \in DOMAIN body[i]
                  THEN SameValue(Received(i)[f], body[i][f])
                  ELSE Received(i)[f] = DefaultOf(f)
            /\ (body[i] = HelloWorld => Received(i) = HelloWorld)

C2_Witness ==
    /\ pc[1] = "done"
    /\ body[1] = HelloWorld
    /\ Response(1).content.received = HelloWorld

\* C3: when wordA and wordB are supplied and some of font, padding, fillet
\* are omitted, each omitted one is received with its default (Sans, 2.5,
\* 0.5) and each supplied one keeps its value; {wordA: A, wordB: B} gives
\* {A, B, Sans, 2.5, 0.5}.
C3_DefaultsApplied ==
    \A i \in Slots :
        (pc[i] = "done" /\ ValidRequest(body[i])) =>
            /\ ("font" \notin DOMAIN body[i] => Received(i).font = Sans)
            /\ ("padding" \notin DOMAIN body[i] => Received(i).padding = TwoAndAHalf)
            /\ ("fillet" \notin DOMAIN body[i] => Received(i).fillet = Half)
            /\ \A f \in DOMAIN body[i] \cap {"font", "padding", "fillet"} :
                  SameValue(Received(i)[f], body[i][f])
            /\ (body[i] = JustAB =>
                  Received(i) = [wordA |-> JStr("A"), wordB |-> JStr("B"), font |-> Sans,
                                 padding |-> TwoAndAHalf, fillet |-> Half])

C3_Witness ==
    /\ pc[1] = "done"
    /\ body[1] = JustAB
    /\ Received(1).padding = TwoAndAHalf

\* C4: a request without wordA or without wordB is rejected with a
\* SchemaValidationError; the handler is not called for it and no
\* message/received payload is produced.
C4_MissingRequiredRejected ==
    \A i \in Slots :
        (pc[i] \in {"validated", "done", "rejected"} /\ ~RequiredPresent(body[i])) =>
            /\ pc[i] = "rejected"
            /\ calls[i] = 0
            /\ req[i] = {}
            /\ Response(i).kind = "SchemaValidationError"
            /\ DOMAIN Response(i).content \cap {"message", "received"} = {}
            /\ \A f \in {"wordA", "wordB"} \ DOMAIN body[i] :
                  [loc |-> f, type |-> "missing"] \in Response(i).content.detail

C4_Witness ==
    /\ pc[1] = "rejected"
    /\ "wordA" \in DOMAIN body[1]
    /\ "wordB" \notin DOMAIN body[1]
    /\ calls[1] = 0

\* C5: two requests with identical input are answered identically, whatever
\* else was served around them.
C5_SameInputSameOutput ==
    \A i, j \in Slots :
        (resp[i] # {} /\ resp[j] # {} /\ body[i] = body[j]) => resp[i] = resp[j]

C5_Witness ==
    /\ MaxInflight >= 2
    /\ pc[1] = "done" /\ pc[2] = "done"
    /\ body[1] = body[2]
    /\ "padding" \in DOMAIN body[1]

\* C6: unknown fields are ignored: the request is answered as the request
\* without them is, and received has exactly the five schema fields.
StripExtra(b) == [k \in DOMAIN b \cap FieldNames |-> b[k]]

C6_ExtraFieldsIgnored ==
    /\ \A i, j \in Slots :
          (resp[i] # {} /\ resp[j] # {} /\ StripExtra(body[i]) = StripExtra(body[j]))
              => resp[i] = resp[j]
    /\ \A i \in Slots :
          (Answered(i) /\ RequiredPresent(body[i]) /\ WellTyped(body[i])) =>
              /\ pc[i] = "done"
              /\ DOMAIN Received(i) = FieldNames

C6_Witness ==
    /\ MaxInflight >= 2
    /\ pc[1] = "done" /\ pc[2] = "done"
    /\ "color" \in DOMAIN body[1]
    /\ "color" \notin DOMAIN body[2]
    /\ StripExtra(body[1]) = body[2]

\* exactly one of the two outcomes, for an answered request
OneOutcome(i) ==
    \/ /\ pc[i] = "rejected"
       /\ calls[i] = 0
       /\ Response(i).kind = "SchemaValidationError"
    \/ /\ pc[i] = "done"
       /\ calls[i] = 1
       /\ Response(i).status = 200
       /\ Response(i).content.message = "Not implemented yet"

\* C7 as stated: an answered request is rejected exactly when a required
\* field is absent or some field does not have its declared type.
C7_RejectedIffAbsentOrWrongType ==
    \A i \in Slots :
        Answered(i) =>
            /\ OneOutcome(i)
            /\ (pc[i] = "rejected") <=> (~RequiredPresent(body[i]) \/ ~WellTyped(body[i]))

\* the values the annotation float converts: numbers, booleans, numeric text
Convertible(w) ==
    \/ w.t \in {"int", "float", "bool"}
    \/ w.t = "str" /\ w.s \in {"1.5", "0.5", "0"}

Unacceptable(b) ==
    \/ ~RequiredPresent(b)
    \/ \E f \in DOMAIN b \cap StrFields : b[f].t # "str"
    \/ \E f \in DOMAIN b \cap FloatFields : ~Convertible(b[f])

\* C7, amended: an answered request is rejected exactly when a required
\* field is absent, a text field is not a string, or padding/fillet cannot
\* be converted to a float; otherwise the handler ran once and returned.
\* A validated request can always be handled.
C7_RejectedIffNotConvertible ==
    \A i \in Slots :
        /\ Answered(i) =>
              /\ OneOutcome(i)
              /\ (pc[i] = "rejected") <=> Unacceptable(body[i])
        /\ pc[i] = "validated" => ENABLED Generate(i)

C7_Witness ==
    /\ pc[1] = "done"
    /\ "padding" \in DOMAIN body[1] /\ body[1].padding = JStr("1.5")
    /\ Received(1).padding = JFloat(6)

\* C8: empty strings and zero or negative numbers are accepted and echoed
\* unchanged; a request whose fields have the right types is never rejected.
C8_NoRangeChecks ==
    \A i \in Slots :
        (Answered(i) /\ ValidRequest(body[i])) =>
            /\ pc[i] = "done"
            /\ Response(i).content.message = "Not implemented yet"
            /\ \A f \in DOMAIN body[i] \cap StrFields :
                  body[i][f].s = "" => Received(i)[f] = JStr("")
            /\ \A f \in DOMAIN body[i] \cap FloatFields :
                  NumValue(body[i][f]) <= 0 => Received(i)[f] = JFloat(NumValue(body[i][f]))

C8_Witness ==
    /\ pc[1] = "done"
    /\ body[1].wordA = JStr("") /\ body[1].wordB = JStr("")
    /\ "font" \in DOMAIN body[1] /\ body[1].font = JStr("")
    /\ "padding" \in DOMAIN body[1] /\ body[1].padding = JInt(0)
    /\ "fillet" \in DOMAIN body[1] /\ body[1].fillet = JInt(-1)
    /\ Received(1).fillet = JFloat(-4)

\* C9: with requests interleaved, every received value comes from the
\* request's own body or from the defaults, never from another request.
C9_OwnInputOnly ==
    \A i \in Slots :
        pc[i] = "done" =>
            \A f \in FieldNames :
                /\ (f \notin DOMAIN body[i] => Received(i)[f] = DefaultOf(f))
                /\ (f \in DOMAIN body[i] /\ f \in StrFields => Received(i)[f].s = body[i][f].s)
                /\ (f \in DOMAIN body[i] /\ body[i][f].t \in {"int", "float"}
                        => Received(i)[f].n = NumValue(body[i][f]))

C9_Witness ==
    /\ MaxInflight >= 2
    /\ pc[1] = "done" /\ pc[2] = "done"
    /\ body[1].wordA # body[2].wordA
    /\ Received(1).wordA = body[1].wordA
    /\ Received(2).wordA = body[2].wordA

\* C10: serving requests changes no process-wide state: the route table is
\* the single entry (POST, /generate) -> generate and the defaults are
\* Sans, 2.5, 0.5.
C10_ProcessStateUnchanged ==
    /\ DOMAIN routes = {<<"POST", "/generate">>}
    /\ routes[<<"POST", "/generate">>] = "generate"
    /\ defaults = [font |-> Sans, padding |-> TwoAndAHalf, fillet |-> Half]

C10_Witness ==
    /\ MaxInflight >= 2
    /\ pc[1] = "done"
    /\ pc[2] = "rejected"
    /\ C10_ProcessStateUnchanged

====
